---- MODULE Spec2Model ----
(***************************************************************************)
(* Model of the plant assistant's App component (src/App.tsx): the         *)
(* watering-reminder store kept in localStorage, the notifier run by the   *)
(* load effect, the reminder modal, and the chat state with its            *)
(* asynchronous model calls (src/unnamed/part_000).                        *)
(*                                                                         *)
(* Time is Date.now() in milliseconds: the wall clock, which the load      *)
(* effect and handleSaveReminder read. One synchronous handler reads one   *)
(* clock value; lastOp.at records it. Speech capture is not part of the    *)
(* model.                                                                  *)
(***************************************************************************)
EXTENDS Integers, Sequences, FiniteSets, TLC

VARIABLES
    storage,              \* localStorage item 'wateringReminders'
    mounted,              \* the mount effects of App have run
    reminders,            \* useState reminders
    alerts,               \* notifications scheduled by the load effect (plant names)
    image,                \* useState image (0 = null)
    messages,             \* useState messages
    userInput,            \* useState userInput
    isLoading,            \* useState isLoading
    error,                \* useState error
    plantName,            \* useState plantName
    isReminderModalOpen,  \* useState isReminderModalOpen
    modalInterval,        \* ReminderModal's useState interval
    typed,                \* text last typed into the modal's number input
    activeTab,            \* useState activeTab
    chatSession,          \* chatSession.current (a handle)
    calls,                \* model calls awaiting their result, oldest first
    lastOp                \* history: what the last step did (NoOp when nothing is recorded)

vars == <<storage, mounted, reminders, alerts, image, messages, userInput,
          isLoading, error, plantName, isReminderModalOpen, modalInterval, typed,
          activeTab, chatSession, calls, lastOp>>

chatVars == <<image, messages, userInput, isLoading, error, activeTab,
              chatSession, calls>>

storeVars == <<storage, reminders, alerts>>

modalVars == <<isReminderModalOpen, modalInterval, typed>>

(***************************************************************************)
(* Bounds of the model.                                                    *)
(***************************************************************************)
MaxDays == 1
MaxInterval == 2
MaxTurns == 3
MaxCalls == 2

(***************************************************************************)
(* Program constants.                                                      *)
(***************************************************************************)
msInDay == 24 * 60 * 60 * 1000
DefaultInterval == 7

PlantNames == {"A", "B"}
NoName == "null"
Images == {1, 2}
NoImage == 0

NoError == "null"
NoImageError == "noImage"
AnalyzeError == "analyze"
SendError == "send"

(***************************************************************************)
(* JavaScript values: numbers (with NaN and the infinities), undefined (a  *)
(* field that is absent) and null.                                         *)
(***************************************************************************)
Num(n) == [t |-> "num", v |-> n]
NaN == [t |-> "nan", v |-> 0]
Inf(s) == [t |-> "inf", v |-> s]
Undef == [t |-> "undef", v |-> 0]
JNull == [t |-> "null", v |-> 0]

IsNum(x) == x.t = "num"

\* ToNumber: undefined -> NaN, null -> +0
ToNumber(x) ==
    CASE x.t = "undef" -> NaN
      [] x.t = "null" -> Num(0)
      [] OTHER -> x

Sign(n) == IF n < 0 THEN -1 ELSE 1

JsMulN(a, b) ==
    CASE a.t = "nan" \/ b.t = "nan" -> NaN
      [] a.t = "inf" /\ b.t = "inf" -> Inf(a.v * b.v)
      [] a.t = "inf" -> IF b.v = 0 THEN NaN ELSE Inf(a.v * Sign(b.v))
      [] b.t = "inf" -> IF a.v = 0 THEN NaN ELSE Inf(b.v * Sign(a.v))
      [] OTHER -> Num(a.v * b.v)

JsMul(x, y) == JsMulN(ToNumber(x), ToNumber(y))

JsAddN(a, b) ==
    CASE a.t = "nan" \/ b.t = "nan" -> NaN
      [] a.t = "inf" /\ b.t = "inf" -> IF a.v = b.v THEN a ELSE NaN
      [] a.t = "inf" -> a
      [] b.t = "inf" -> b
      [] OTHER -> Num(a.v + b.v)

JsAdd(x, y) == JsAddN(ToNumber(x), ToNumber(y))

JsNeg(a) ==
    CASE a.t = "num" -> Num(0 - a.v)
      [] a.t = "inf" -> Inf(0 - a.v)
      [] OTHER -> a

JsSub(x, y) == JsAddN(ToNumber(x), JsNeg(ToNumber(y)))

\* Math.floor(x / y) on finite integers: floor of the exact quotient
FloorQuot(a, b) == IF b > 0 THEN a \div b ELSE (0 - a) \div (0 - b)

\* Math.floor(x / y)
JsFloorDivN(a, b) ==
    CASE a.t = "nan" \/ b.t = "nan" -> NaN
      [] a.t = "inf" /\ b.t = "inf" -> NaN
      [] a.t = "inf" -> Inf(a.v * Sign(b.v))
      [] b.t = "inf" -> IF a.v = 0 \/ Sign(a.v) = b.v THEN Num(0) ELSE Num(-1)
      [] b.v = 0 -> IF a.v = 0 THEN NaN ELSE Inf(Sign(a.v))
      [] OTHER -> Num(FloorQuot(a.v, b.v))

JsFloorDiv(x, y) == JsFloorDivN(ToNumber(x), ToNumber(y))

\* x >= y and x < y: false when either side is NaN
JsGe(x, y) ==
    LET a == ToNumber(x)
        b == ToNumber(y)
    IN  CASE a.t = "nan" \/ b.t = "nan" -> FALSE
          [] a.t = "inf" /\ b.t = "inf" -> a.v >= b.v
          [] a.t = "inf" -> a.v = 1
          [] b.t = "inf" -> b.v = -1
          [] OTHER -> a.v >= b.v

JsLt(x, y) ==
    LET a == ToNumber(x)
        b == ToNumber(y)
    IN  CASE a.t = "nan" \/ b.t = "nan" -> FALSE
          [] a.t = "inf" /\ b.t = "inf" -> a.v < b.v
          [] a.t = "inf" -> a.v = -1
          [] b.t = "inf" -> b.v = 1
          [] OTHER -> a.v < b.v

\* new Date(x).getTime(): a time value, NaN for an invalid date
DateOf(x) == IF ToNumber(x).t = "num" THEN ToNumber(x) ELSE NaN

(***************************************************************************)
(* localStorage item 'wateringReminders'. The item is absent, the empty    *)
(* string, text that JSON.parse rejects, JSON text of a value that is no   *)
(* array, or JSON text of an array; an array is held as its elements.      *)
(* An element is null or an object with the fields of Reminder; a field    *)
(* that is absent is Undef. Other fields of an element are left out: the   *)
(* load never reads them (the nextWateringDate that JSON.stringify writes  *)
(* for a reminder held in memory is overwritten at line 154).              *)
(***************************************************************************)
NoItem == [kind |-> "none", items |-> <<>>]
EmptyText == [kind |-> "empty", items |-> <<>>]
Garbage == [kind |-> "garbage", items |-> <<>>]
NonArray == [kind |-> "nonArray", items |-> <<>>]
ArrayOf(items) == [kind |-> "array", items |-> items]

Item(p, i, s) ==
    [isNull |-> FALSE, plantName |-> p, interval |-> i, startDate |-> s]

NullItem ==
    [isNull |-> TRUE, plantName |-> NoName, interval |-> Undef, startDate |-> Undef]

\* the clock values of the model: the start of each day and the millisecond after it
TimePoints == {d * msInDay + e : d \in 0..MaxDays, e \in {0, 1}}


\* the midnights among them
DayStarts == {d * msInDay : d \in 0..MaxDays}

\* records as handleSaveReminder writes them
ValidItems == {Item("A", Num(i), Num(s)) : i \in 1..MaxInterval, s \in {0, 1}}

\* records and elements that only another writer of the item can leave there
ForeignItems ==
    {Item("A", Undef, Num(0)), Item("A", Num(0), Num(0)), Item("B", Num(-2), Num(0)),
     Item("A", Num(1), Undef), NullItem}

InitItems == ValidItems \cup ForeignItems

\* two elements: a name stored twice, a null after a record, a record without its
\* interval before a valid one
InitPairs ==
    {<<Item("A", Num(1), Num(0)), Item("A", Num(MaxInterval), Num(1))>>,
     <<Item("A", Num(1), Num(0)), NullItem>>,
     <<Item("A", Undef, Num(0)), Item("B", Num(MaxInterval), Num(1))>>}

InitArrays == {<<>>} \cup {<<x>> : x \in InitItems} \cup InitPairs

InitStorages == {NoItem, EmptyText, Garbage, NonArray} \cup {ArrayOf(a) : a \in InitArrays}

(***************************************************************************)
(* The load effect's map callback (App.tsx 140-155).                       *)
(***************************************************************************)
\* a variant that stops at the interval the clock is in: (intervalsPassed) * intervalMs
NextWateringNoStep(item, t) ==
    LET intervalMs == JsMul(item.interval, Num(msInDay))
        timeSinceStart == JsSub(Num(t), item.startDate)
        intervalsPassed == JsFloorDiv(timeSinceStart, intervalMs)
    IN  DateOf(JsAdd(item.startDate, JsMul(intervalsPassed, intervalMs)))

\* lines 141-147: the reminder with its nextWateringDate
NextWatering(item, t) ==
    LET intervalMs == JsMul(item.interval, Num(msInDay))
        timeSinceStart == JsSub(Num(t), item.startDate)
        intervalsPassed == JsFloorDiv(timeSinceStart, intervalMs)
        nextWateringTimestamp ==
            JsAdd(item.startDate, JsMul(JsAdd(intervalsPassed, Num(1)), intervalMs))
    IN  DateOf(nextWateringTimestamp)

Derive(item, t) ==
    [plantName |-> item.plantName, interval |-> item.interval,
     startDate |-> item.startDate, nextWateringDate |-> NextWatering(item, t)]

\* a variant with > for >= at the start of the window
DueNowStrict(t, next) ==
    /\ ~JsLt(Num(t), JsSub(next, Num(msInDay)))
    /\ Num(t) # JsSub(next, Num(msInDay))
    /\ JsLt(Num(t), JsAdd(next, Num(msInDay)))

\* line 150: the alert condition
DueNow(t, next) ==
    /\ JsGe(Num(t), JsSub(next, Num(msInDay)))
    /\ JsLt(Num(t), JsAdd(next, Num(msInDay)))

\* index of the first null element (reading a field of it throws), 0 if none
RECURSIVE FirstNull(_, _)
FirstNull(items, i) ==
    IF i > Len(items) THEN 0
    ELSE IF items[i].isNull THEN i
    ELSE FirstNull(items, i + 1)

\* the elements the map callback completes before it throws or ends
Processed(items) ==
    IF FirstNull(items, 1) = 0 THEN items
    ELSE SubSeq(items, 1, FirstNull(items, 1) - 1)

RECURSIVE MapDerive(_, _)
MapDerive(items, t) ==
    IF items = <<>> THEN <<>>
    ELSE <<Derive(Head(items), t)>> \o MapDerive(Tail(items), t)

\* line 151: one setTimeout(alert) per processed element that is due
RECURSIVE ScheduledAlerts(_, _)
ScheduledAlerts(items, t) ==
    IF items = <<>> THEN <<>>
    ELSE (IF DueNow(t, NextWatering(Head(items), t)) THEN <<Head(items).plantName>> ELSE <<>>)
         \o ScheduledAlerts(Tail(items), t)

(***************************************************************************)
(* Array.prototype.sort with (a, b) => a.nextWateringDate - b.nextWatering *)
(* Date (lines 156, 260). With every date a number the comparator is       *)
(* consistent and the sort is stable and ascending. With an invalid date   *)
(* the comparator returns NaN and the order is implementation-defined:     *)
(* any permutation.                                                        *)
(***************************************************************************)
RECURSIVE Insert(_, _)
Insert(sorted, r) ==
    IF sorted = <<>> THEN <<r>>
    ELSE IF r.nextWateringDate.v < Head(sorted).nextWateringDate.v
         THEN <<r>> \o sorted
         ELSE <<Head(sorted)>> \o Insert(Tail(sorted), r)

\* a variant that leaves the list as it is
Unsorted(list) == list

RECURSIVE StableSort(_)
StableSort(list) ==
    IF list = <<>> THEN <<>>
    ELSE Insert(StableSort(SubSeq(list, 1, Len(list) - 1)), list[Len(list)])

Perms(list) ==
    {[i \in 1..Len(list) |-> list[f[i]]] :
        f \in {g \in [1..Len(list) -> 1..Len(list)] :
                  \A i, j \in 1..Len(list) : i # j => g[i] # g[j]}}

SortOutcomes(list) ==
    IF \A i \in 1..Len(list) : IsNum(list[i].nextWateringDate)
    THEN {StableSort(list)}
    ELSE Perms(list)

(***************************************************************************)
(* JSON.stringify of the in-memory list (lines 253, 268), as the fields of *)
(* Reminder: NaN becomes null, an absent field stays absent.               *)
(***************************************************************************)
JsonNumber(x) == IF x.t \in {"nan", "inf"} THEN JNull ELSE x

Stringify(r) ==
    [isNull |-> FALSE, plantName |-> r.plantName, interval |-> JsonNumber(r.interval),
     startDate |-> JsonNumber(r.startDate)]

RECURSIVE StringifyAll(_)
StringifyAll(list) ==
    IF list = <<>> THEN <<>>
    ELSE <<Stringify(Head(list))>> \o StringifyAll(Tail(list))

\* variants of the filter: one that removes nothing, one with === for !==
FilterNothing(list, p) == list

FilterKeepsMatch(list, p) ==
    LET Matches(r) == r.plantName = p
    IN  SelectSeq(list, Matches)

\* reminders.filter(r => r.plantName !== p)
RECURSIVE FilterOut(_, _)
FilterOut(list, p) ==
    IF list = <<>> THEN <<>>
    ELSE (IF Head(list).plantName # p THEN <<Head(list)>> ELSE <<>>)
         \o FilterOut(Tail(list), p)

HasReminder(list, p) == \E i \in 1..Len(list) : list[i].plantName = p

(***************************************************************************)
(* The history variable lastOp describes the step that led to the state:   *)
(*   op        "load", "save", "delete", "sendFail", "analyzeFail",        *)
(*             "analyzeNoImage", "sendNoText";                             *)
(*             "reload" for a reload that directly follows a save; "none"  *)
(*             otherwise                                                   *)
(*   name      the plant name saved or deleted                             *)
(*   existed   whether the in-memory list held that name before the step   *)
(*   interval  the interval passed to handleSaveReminder                   *)
(*   at        the clock value the step read                               *)
(*   saved     (load) the load directly follows a save and a reload; name  *)
(*             and interval are then those of the save                     *)
(*   found     (load) the item as the load found it                        *)
(*   before, session, cleared, image   ("sendFail", "analyzeFail") the     *)
(*             record of the call that failed                              *)
(***************************************************************************)
NoOp ==
    [op |-> "none", name |-> NoName, existed |-> FALSE, interval |-> 0, at |-> 0,
     saved |-> FALSE, found |-> NoItem, before |-> <<>>, session |-> 0,
     cleared |-> FALSE, image |-> NoImage]

\* a step that performs no reminder-store operation
StoreKept == UNCHANGED storeVars /\ lastOp' = NoOp

(***************************************************************************)
(* Texts typed by the user, as sequences of characters.                    *)
(***************************************************************************)
IsDigit(c) == c \in {"0", "1", "2", "3", "4", "5", "6", "7", "8", "9"}

DigitVal(c) ==
    CASE c = "0" -> 0 [] c = "1" -> 1 [] c = "2" -> 2 [] c = "3" -> 3 [] c = "4" -> 4
      [] c = "5" -> 5 [] c = "6" -> 6 [] c = "7" -> 7 [] c = "8" -> 8 [] c = "9" -> 9

RECURSIVE SkipSpaces(_)
SkipSpaces(s) == IF s # <<>> /\ Head(s) = " " THEN SkipSpaces(Tail(s)) ELSE s

RECURSIVE LeadingDigits(_, _)
LeadingDigits(s, acc) ==
    IF s = <<>> \/ ~IsDigit(Head(s)) THEN acc
    ELSE LeadingDigits(Tail(s), acc * 10 + DigitVal(Head(s)))

\* parseInt(text, 10): blanks, a sign, then the leading digits; NaN without a digit
ParseInt(text) ==
    LET s == SkipSpaces(text)
        signed == s # <<>> /\ Head(s) \in {"-", "+"}
        body == IF signed THEN Tail(s) ELSE s
    IN  IF body = <<>> \/ ~IsDigit(Head(body)) THEN NaN
        ELSE IF signed /\ Head(s) = "-" THEN Num(0 - LeadingDigits(body, 0))
        ELSE Num(LeadingDigits(body, 0))

\* line 54: parseInt(e.target.value, 10) || 1
CoerceInterval(text) ==
    IF ParseInt(text).t = "nan" \/ ParseInt(text).v = 0 THEN 1 ELSE ParseInt(text).v

\* a variant without the check
ModalAcceptsAll(interval) == TRUE

\* line 40: handleSave passes the interval on only when it is positive
ModalAccepts(interval) == interval > 0

RECURSIVE Reverse(_)
Reverse(s) == IF s = <<>> THEN <<>> ELSE Reverse(Tail(s)) \o <<Head(s)>>

\* String.prototype.trim
Trim(s) == Reverse(SkipSpaces(Reverse(SkipSpaces(s))))

TypedIntervals == {<<>>, <<"a">>, <<"0">>, <<"-", "2">>}
NothingTyped == <<"7">>

InputTexts == {<<>>, <<" ">>, <<"q">>}

(***************************************************************************)
(* The state after construction: useState initial values, no effect run.   *)
(***************************************************************************)
Init ==
    /\ storage \in InitStorages
    /\ mounted = FALSE
    /\ reminders = <<>>
    /\ alerts = <<>>
    /\ image = NoImage
    /\ messages = <<>>
    /\ userInput = <<>>
    /\ isLoading = FALSE
    /\ error = NoError
    /\ plantName = NoName
    /\ isReminderModalOpen = FALSE
    /\ modalInterval = DefaultInterval
    /\ typed = NothingTyped
    /\ activeTab = "chat"
    /\ chatSession = 0
    /\ calls = <<>>
    /\ lastOp = NoOp

(***************************************************************************)
(* The mount effects: createChatSession (line 96) and the load of the      *)
(* reminders (lines 135-163).                                              *)
(***************************************************************************)
\* the catch block, lines 158-161
OnLoadFailure(scheduled) ==
    [storage |-> NoItem, reminders |-> <<>>, alerts |-> scheduled, error |-> NoError]

\* a variant that tests for null only
ItemPresentNotNull(st) == st.kind # "none"

\* line 137: the item is read only when getItem returns a non-empty string
ItemPresent(st) == st.kind \notin {"none", "empty"}

\* the outcomes of the effect on item st with the clock at t
LoadOutcomes(st, t) ==
    IF ~ItemPresent(st)
    THEN {[storage |-> st, reminders |-> <<>>, alerts |-> <<>>, error |-> NoError]}
    ELSE IF st.kind # "array"
    THEN {OnLoadFailure(<<>>)}
    ELSE IF FirstNull(st.items, 1) # 0
    THEN {OnLoadFailure(ScheduledAlerts(Processed(st.items), t))}
    ELSE {[storage |-> st, reminders |-> sorted,
           alerts |-> ScheduledAlerts(st.items, t), error |-> NoError] :
             sorted \in SortOutcomes(MapDerive(st.items, t))}

Mount(loadTimes) ==
    /\ ~mounted
    /\ mounted' = TRUE
    /\ chatSession' = 1
    /\ \E t \in loadTimes :
         \E o \in LoadOutcomes(storage, t) :
            /\ storage' = o.storage
            /\ reminders' = o.reminders
            /\ alerts' = o.alerts
            /\ error' = o.error
            /\ lastOp' = [NoOp EXCEPT !.op = "load", !.at = t, !.found = storage,
                                       !.saved = (lastOp.op = "reload"),
                                       !.name = lastOp.name,
                                       !.interval = lastOp.interval]
    /\ UNCHANGED <<image, messages, userInput, isLoading, plantName, activeTab, calls>>
    /\ UNCHANGED modalVars

\* the page is reloaded: every component state and pending callback is gone
Reload ==
    /\ mounted
    /\ mounted' = FALSE
    /\ reminders' = <<>>
    /\ alerts' = <<>>
    /\ image' = NoImage
    /\ messages' = <<>>
    /\ userInput' = <<>>
    /\ isLoading' = FALSE
    /\ error' = NoError
    /\ plantName' = NoName
    /\ isReminderModalOpen' = FALSE
    /\ modalInterval' = DefaultInterval
    /\ typed' = NothingTyped
    /\ activeTab' = "chat"
    /\ chatSession' = 0
    /\ calls' = <<>>
    /\ lastOp' = IF lastOp.op = "save" THEN [lastOp EXCEPT !.op = "reload"] ELSE NoOp
    /\ UNCHANGED storage

(***************************************************************************)
(* ReminderModal (lines 36-67) is rendered while isReminderModalOpen and   *)
(* plantName are both set (line 328); its state lives while it is rendered.*)
(***************************************************************************)
ModalRendered(open, name) == open /\ name # NoName

\* the modal's state after a step that sets isReminderModalOpen and plantName
ModalKeeps(open, name) ==
    IF ModalRendered(isReminderModalOpen, plantName) /\ ModalRendered(open, name)
    THEN UNCHANGED <<modalInterval, typed>>
    ELSE modalInterval' = DefaultInterval /\ typed' = NothingTyped

(***************************************************************************)
(* Chat handlers (lines 166-240) and the controls that call them.          *)
(***************************************************************************)
\* A call awaiting its result: what the handler's closure holds (the image, the
\* session handle, the text sent) and, as history, the conversation when the
\* handler was invoked and whether handleImageChange has run since.
RemoveAt(seq, i) == SubSeq(seq, 1, i - 1) \o SubSeq(seq, i + 1, Len(seq))

UserTurn(text) == [role |-> "user", text |-> text]
ModelTurn == [role |-> "model", text |-> <<"r">>]

\* a response of analyzePlantImage: the name the regex of line 196 finds in its
\* text (NoName when it finds none), or NoText for a response whose text is undefined
NoText == "undefined"
TextlessTurn == [role |-> "model", text |-> <<NoText>>]
Responses == PlantNames \cup {NoName, NoText}

\* createChatSession (part_000 55-62): a handle that is not the current one and
\* that no call still awaiting its result holds
NewSession(pending) ==
    CHOOSE h \in 1..(Len(pending) + 2) :
        /\ h # chatSession
        /\ \A j \in 1..Len(pending) : pending[j].session # h

\* handleImageChange, lines 166-176 (the file input lives on the chat tab)
ImageChange(f) ==
    /\ mounted
    /\ activeTab = "chat"
    /\ image' = f
    /\ messages' = <<>>
    /\ error' = NoError
    /\ plantName' = NoName
    /\ activeTab' = "chat"
    /\ ModalKeeps(isReminderModalOpen, NoName)
    /\ calls' = [i \in 1..Len(calls) |-> [calls[i] EXCEPT !.cleared = TRUE]]
    /\ UNCHANGED <<userInput, isLoading, chatSession, isReminderModalOpen, mounted>>
    /\ StoreKept

\* lines 369-377: the analyze button is rendered with an image, disabled while loading
AnalyzeButtonRendered == activeTab = "chat" /\ image # NoImage

\* a variant without the disabled attribute
NeverDisabled == FALSE

AnalyzeButtonDisabled == isLoading

\* handleAnalyzeClick up to its first await, lines 178-190
handleAnalyzeClick ==
    /\ Len(calls) < MaxCalls
    /\ IF image = NoImage
       THEN /\ error' = NoImageError
            /\ UNCHANGED <<messages, isLoading, plantName, calls, modalInterval, typed>>
       ELSE /\ isLoading' = TRUE
            /\ error' = NoError
            /\ messages' = <<>>
            /\ plantName' = NoName
            /\ calls' = Append(calls, [kind |-> "analyze", image |-> image,
                                       session |-> chatSession, text |-> <<>>,
                                       before |-> messages, cleared |-> FALSE])
            /\ ModalKeeps(isReminderModalOpen, NoName)
    /\ UNCHANGED <<image, userInput, activeTab, chatSession, isReminderModalOpen,
                   mounted>>
    /\ UNCHANGED storeVars

\* line 371: a click on the analyze button
AnalyzeClick ==
    /\ mounted
    /\ AnalyzeButtonRendered
    /\ ~AnalyzeButtonDisabled
    /\ handleAnalyzeClick
    /\ lastOp' = NoOp

\* the handler invoked while no image is selected (the button is not rendered then)
AnalyzeWithoutImage ==
    /\ mounted
    /\ image = NoImage
    /\ handleAnalyzeClick
    /\ lastOp' = [NoOp EXCEPT !.op = "analyzeNoImage"]

\* lines 191-201 and 206-208: the call resolves. Without a text, the turn is set
\* (line 194) and modelResponse.match throws (line 196), which the catch handles.
AnalyzeDone(i, name) ==
    /\ calls[i].kind = "analyze"
    /\ IF name = NoText
       THEN /\ messages' = <<TextlessTurn>>
            /\ error' = AnalyzeError
            /\ UNCHANGED <<plantName, chatSession, modalInterval, typed>>
       ELSE /\ messages' = <<ModelTurn>>
            /\ plantName' = IF name # NoName THEN name ELSE plantName
            /\ chatSession' = NewSession(RemoveAt(calls, i))
            /\ ModalKeeps(isReminderModalOpen, IF name # NoName THEN name ELSE plantName)
            /\ UNCHANGED error
    /\ isLoading' = FALSE
    /\ calls' = RemoveAt(calls, i)
    /\ UNCHANGED <<image, userInput, activeTab, isReminderModalOpen, mounted>>
    /\ StoreKept

\* a variant of the catch that also replaces the session
AnalyzeFailNewSession(i) ==
    /\ calls[i].kind = "analyze"
    /\ error' = AnalyzeError
    /\ isLoading' = FALSE
    /\ calls' = RemoveAt(calls, i)
    /\ chatSession' = NewSession(RemoveAt(calls, i))
    /\ UNCHANGED <<image, messages, userInput, plantName, activeTab, mounted>>
    /\ UNCHANGED modalVars
    /\ UNCHANGED storeVars
    /\ lastOp' = [NoOp EXCEPT !.op = "analyzeFail", !.before = calls[i].before,
                               !.session = calls[i].session,
                               !.cleared = calls[i].cleared,
                               !.image = calls[i].image]

\* lines 203-208: the call (or the file read) rejects
AnalyzeFail(i) ==
    /\ calls[i].kind = "analyze"
    /\ error' = AnalyzeError
    /\ isLoading' = FALSE
    /\ calls' = RemoveAt(calls, i)
    /\ UNCHANGED <<image, messages, userInput, plantName, activeTab, chatSession,
                   mounted>>
    /\ UNCHANGED modalVars
    /\ UNCHANGED storeVars
    /\ lastOp' = [NoOp EXCEPT !.op = "analyzeFail", !.before = calls[i].before,
                               !.session = calls[i].session,
                               !.cleared = calls[i].cleared,
                               !.image = calls[i].image]

\* lines 442-447: the text input is disabled without a conversation or while loading
TypeInput(text) ==
    /\ mounted
    /\ activeTab = "chat"
    /\ ~(Len(messages) = 0 \/ isLoading)
    /\ userInput' = text
    /\ UNCHANGED <<image, messages, isLoading, error, plantName, activeTab,
                   chatSession, calls, mounted>>
    /\ UNCHANGED modalVars
    /\ StoreKept

\* line 464: the submit button's disabled attribute
SubmitDisabled == Trim(userInput) = <<>> \/ isLoading \/ Len(messages) = 0

\* a variant that tests the text as typed, without trim()
SendRejectedUntrimmed == userInput = <<>> \/ isLoading

\* line 213: the handler's own early return
SendRejected == Trim(userInput) = <<>> \/ isLoading

\* a variant without the rollback
DropNothing(prev) == prev

\* line 236: prev.slice(0, -1)
DropLast(prev) == SubSeq(prev, 1, Len(prev) - 1)

\* handleSendMessage up to its await, lines 211-230
handleSendMessage ==
    /\ Len(messages) + 2 <= MaxTurns
    /\ Len(calls) < MaxCalls
    /\ IF SendRejected
       THEN UNCHANGED <<messages, userInput, isLoading, error, calls>>
       ELSE /\ messages' = Append(messages, UserTurn(userInput))
            /\ userInput' = <<>>
            /\ isLoading' = TRUE
            /\ error' = NoError
            /\ calls' = Append(calls, [kind |-> "send", image |-> image,
                                       session |-> chatSession, text |-> userInput,
                                       before |-> messages, cleared |-> FALSE])
    /\ UNCHANGED <<image, plantName, activeTab, chatSession, mounted>>
    /\ UNCHANGED modalVars
    /\ UNCHANGED storeVars

\* line 439: the form is submitted through its submit button
SendMessage ==
    /\ mounted
    /\ activeTab = "chat"
    /\ ~SubmitDisabled
    /\ handleSendMessage
    /\ lastOp' = NoOp

\* the handler invoked with a text that is empty once trimmed (the button is
\* disabled then)
SendWithoutText ==
    /\ mounted
    /\ Trim(userInput) = <<>>
    /\ handleSendMessage
    /\ lastOp' = [NoOp EXCEPT !.op = "sendNoText"]

\* lines 231-232 and 237-239: the reply arrives
SendDone(i) ==
    /\ calls[i].kind = "send"
    /\ messages' = Append(messages, ModelTurn)
    /\ isLoading' = FALSE
    /\ calls' = RemoveAt(calls, i)
    /\ UNCHANGED <<image, userInput, error, plantName, activeTab, chatSession, mounted>>
    /\ UNCHANGED modalVars
    /\ StoreKept

\* a variant of the catch without the finally block
SendFailStaysLoading(i) ==
    /\ calls[i].kind = "send"
    /\ error' = SendError
    /\ messages' = DropLast(messages)
    /\ calls' = RemoveAt(calls, i)
    /\ UNCHANGED <<image, userInput, isLoading, plantName, activeTab, chatSession,
                   mounted>>
    /\ UNCHANGED modalVars
    /\ UNCHANGED storeVars
    /\ lastOp' = [NoOp EXCEPT !.op = "sendFail", !.before = calls[i].before,
                               !.session = calls[i].session,
                               !.cleared = calls[i].cleared]

\* lines 233-239: the call rejects
SendFail(i) ==
    /\ calls[i].kind = "send"
    /\ error' = SendError
    /\ messages' = DropLast(messages)
    /\ isLoading' = FALSE
    /\ calls' = RemoveAt(calls, i)
    /\ UNCHANGED <<image, userInput, plantName, activeTab, chatSession, mounted>>
    /\ UNCHANGED modalVars
    /\ UNCHANGED storeVars
    /\ lastOp' = [NoOp EXCEPT !.op = "sendFail", !.before = calls[i].before,
                               !.session = calls[i].session,
                               !.cleared = calls[i].cleared]

\* lines 334-346: the two tab buttons
SetActiveTab(tab) ==
    /\ mounted
    /\ activeTab' = tab
    /\ UNCHANGED <<image, messages, userInput, isLoading, error, plantName,
                   chatSession, calls, mounted>>
    /\ UNCHANGED modalVars
    /\ StoreKept

(***************************************************************************)
(* The reminder controls.                                                  *)
(***************************************************************************)
\* lines 324 and 381-390: the reminder button
OpenModal ==
    /\ mounted
    /\ activeTab = "chat"
    /\ plantName # NoName
    /\ Len(messages) > 0
    /\ ~HasReminder(reminders, plantName)
    /\ isReminderModalOpen' = TRUE
    /\ ModalKeeps(TRUE, plantName)
    /\ UNCHANGED <<plantName, mounted>>
    /\ UNCHANGED chatVars
    /\ StoreKept

\* line 328: onClose
CloseModal ==
    /\ mounted
    /\ ModalRendered(isReminderModalOpen, plantName)
    /\ isReminderModalOpen' = FALSE
    /\ ModalKeeps(FALSE, plantName)
    /\ UNCHANGED <<plantName, mounted>>
    /\ UNCHANGED chatVars
    /\ StoreKept

\* line 54: the number input's onChange
ModalInput(text) ==
    /\ mounted
    /\ ModalRendered(isReminderModalOpen, plantName)
    /\ modalInterval' = CoerceInterval(text)
    /\ typed' = text
    /\ UNCHANGED <<isReminderModalOpen, plantName, mounted>>
    /\ UNCHANGED chatVars
    /\ StoreKept

\* handleSaveReminder, lines 242-264
SaveReminder(interval, times) ==
    IF plantName = NoName
    THEN UNCHANGED <<mounted, plantName>> /\ UNCHANGED chatVars /\ UNCHANGED modalVars
         /\ StoreKept
    ELSE \E t \in times :
        LET newReminder ==
                [plantName |-> plantName, interval |-> Num(interval), startDate |-> Num(t)]
            updatedReminders ==
                StringifyAll(FilterOut(reminders, plantName)) \o <<Stringify(newReminder)>>
            nextWateringDate == DateOf(JsAdd(Num(t), JsMul(Num(interval), Num(msInDay))))
            newList ==
                FilterOut(reminders, plantName)
                    \o <<[plantName |-> plantName, interval |-> Num(interval),
                          startDate |-> Num(t), nextWateringDate |-> nextWateringDate]>>
        IN  /\ storage' = ArrayOf(updatedReminders)
            /\ reminders' \in SortOutcomes(newList)
            /\ isReminderModalOpen' = FALSE
            /\ ModalKeeps(FALSE, plantName)
            /\ lastOp' = [NoOp EXCEPT !.op = "save", !.name = plantName,
                                       !.existed = HasReminder(reminders, plantName),
                                       !.interval = interval, !.at = t]
            /\ UNCHANGED <<alerts, plantName, mounted>>
            /\ UNCHANGED chatVars

\* ReminderModal's handleSave, lines 39-43
ModalSave(times) ==
    /\ mounted
    /\ ModalRendered(isReminderModalOpen, plantName)
    /\ IF ModalAccepts(modalInterval)
       THEN SaveReminder(modalInterval, times)
       ELSE UNCHANGED <<mounted, plantName>> /\ UNCHANGED chatVars /\ UNCHANGED modalVars
            /\ StoreKept

\* handleDeleteReminder, lines 266-270, for any plant name
DeleteReminder(p) ==
    /\ mounted
    /\ activeTab = "reminders"
    /\ storage' = ArrayOf(StringifyAll(FilterOut(reminders, p)))
    /\ reminders' = FilterOut(reminders, p)
    /\ lastOp' = [NoOp EXCEPT !.op = "delete", !.name = p,
                               !.existed = HasReminder(reminders, p)]
    /\ UNCHANGED <<alerts, plantName, mounted>>
    /\ UNCHANGED modalVars
    /\ UNCHANGED chatVars

\* the steps of the program, with the values its environment supplies: the files
\* the user picks, the texts typed into the chat input, the names found in the
\* analysis responses, the texts typed into the modal's input, the clock values
\* the load reads and those handleSaveReminder reads
NextWith(images, texts, names, intervals, loadTimes, times) ==
    \/ Mount(loadTimes)
    \/ Reload
    \/ \E f \in images : ImageChange(f)
    \/ AnalyzeClick
    \/ \E i \in 1..Len(calls) : \E name \in names : AnalyzeDone(i, name)
    \/ \E i \in 1..Len(calls) : AnalyzeFail(i)
    \/ \E text \in texts : TypeInput(text)
    \/ SendMessage
    \/ \E i \in 1..Len(calls) : SendDone(i)
    \/ \E i \in 1..Len(calls) : SendFail(i)
    \/ \E tab \in {"chat", "reminders"} : SetActiveTab(tab)
    \/ OpenModal
    \/ CloseModal
    \/ \E text \in intervals : ModalInput(text)
    \/ ModalSave(times)
    \/ \E p \in names \ {NoName, NoText} : DeleteReminder(p)

(***************************************************************************)
(* Spec: the chat and its model calls, over two images and every chat      *)
(* input, with an empty reminder store at the start and a clock that       *)
(* stands still.                                                           *)
(***************************************************************************)
Next == NextWith(Images, InputTexts, Responses, TypedIntervals, {0}, {0})

InitEmpty == Init /\ storage = NoItem

Spec == InitEmpty /\ [][Next]_vars

(***************************************************************************)
(* SpecLive: Spec with every model call settling: a promise that is        *)
(* pending resolves or rejects, and its continuation then runs.            *)
(***************************************************************************)
CallSettles ==
    \E i \in 1..Len(calls) :
        \/ \E name \in Responses : AnalyzeDone(i, name)
        \/ AnalyzeFail(i)
        \/ SendDone(i)
        \/ SendFail(i)

SpecLive == InitEmpty /\ [][Next]_vars /\ WF_vars(CallSettles)

(***************************************************************************)
(* SpecHandlers: as Spec, with the two chat handlers also invoked without  *)
(* their input, past the controls that keep the user from doing so.        *)
(***************************************************************************)
NextHandlers ==
    \/ Next
    \/ AnalyzeWithoutImage
    \/ SendWithoutText

SpecHandlers == InitEmpty /\ [][NextHandlers]_vars

(***************************************************************************)
(* SpecStore: the reminder store over every initial content of the item,   *)
(* loads at every clock value and saves at midnights, with one image, one  *)
(* chat input, responses that name a plant and one text typed into the     *)
(* modal.                                                                  *)
(***************************************************************************)
NextStore == NextWith({1}, {<<"q">>}, PlantNames, {<<"0">>}, TimePoints, DayStarts)

SpecStore == Init /\ [][NextStore]_vars

(***************************************************************************)
(* SpecValid: as SpecStore, from an item that is absent or an array of     *)
(* records as handleSaveReminder writes them. SpecEmpty: as SpecStore,     *)
(* from an absent item.                                                    *)
(***************************************************************************)
ValidArrays ==
    {<<>>} \cup {<<x>> : x \in ValidItems}
           \cup {<<Item("A", Num(1), Num(0)), Item("A", Num(MaxInterval), Num(1))>>,
                 <<Item("B", Num(MaxInterval), Num(1)), Item("A", Num(1), Num(0))>>}

InitValid == Init /\ storage \in {NoItem} \cup {ArrayOf(a) : a \in ValidArrays}

SpecValid == InitValid /\ [][NextStore]_vars

\* the reminder handlers from an empty store, with a third plant
NextEmpty == NextWith({1}, {<<"q">>}, PlantNames \cup {"C"}, {<<"0">>}, {0}, {msInDay})

SpecEmpty == InitEmpty /\ [][NextEmpty]_vars

(***************************************************************************)
(* Properties.                                                             *)
(***************************************************************************)
ItemsOf(st) == IF st.kind = "array" THEN st.items ELSE <<>>

Count(x, seq) == Cardinality({i \in 1..Len(seq) : seq[i] = x})

\* the same elements, each as often, in any order
SameElements(a, b) ==
    \A x \in {a[i] : i \in 1..Len(a)} \cup {b[i] : i \in 1..Len(b)} :
        Count(x, a) = Count(x, b)

\* the fields of Reminder of each element
Fields(seq) ==
    [i \in 1..Len(seq) |-> <<seq[i].plantName, seq[i].interval, seq[i].startDate>>]

IndexesOf(list, p) == {i \in 1..Len(list) : list[i].plantName = p}

C1_Valid(r, t) ==
    /\ IsNum(r.interval) /\ r.interval.v >= 1
    /\ IsNum(r.startDate) /\ r.startDate.v <= t

C1_FutureOnGrid(r, t) ==
    /\ IsNum(r.nextWateringDate)
    /\ r.nextWateringDate.v > t
    /\ \E k \in 1..(MaxDays + 2) :
          r.nextWateringDate.v = r.startDate.v + k * r.interval.v * 86400000

\* C1: right after a load, every reminder with an integer interval >= 1 and a
\* startDate <= now has a nextWateringDate > now that is startDate plus k >= 1
\* intervals; right after a save the saved reminder has startDate = now and the same.
C1_NextWateringInFuture ==
    /\ lastOp.op = "load" =>
          \A i \in 1..Len(reminders) :
              C1_Valid(reminders[i], lastOp.at) => C1_FutureOnGrid(reminders[i], lastOp.at)
    /\ lastOp.op = "save" =>
          \A i \in IndexesOf(reminders, lastOp.name) :
              /\ reminders[i].startDate = Num(lastOp.at)
              /\ C1_FutureOnGrid(reminders[i], lastOp.at)

\* a load that found a reminder whose second interval after startDate is the next one
C1_Witness ==
    /\ lastOp.op = "load"
    /\ \E i \in 1..Len(reminders) :
          /\ C1_Valid(reminders[i], lastOp.at)
          /\ reminders[i].nextWateringDate.v
                = reminders[i].startDate.v + 2 * reminders[i].interval.v * 86400000

C2_Unique(list) ==
    \A i, j \in 1..Len(list) : i # j => list[i].plantName # list[j].plantName

C2_OnePerPlant ==
    /\ C2_Unique(reminders)
    /\ C2_Unique(ItemsOf(storage))
    /\ lastOp.op = "save" =>
          /\ Cardinality(IndexesOf(reminders, lastOp.name)) = 1
          /\ Cardinality(IndexesOf(ItemsOf(storage), lastOp.name)) = 1
          /\ \A i \in IndexesOf(reminders, lastOp.name) :
                /\ reminders[i].interval = Num(lastOp.interval)
                /\ reminders[i].startDate = Num(lastOp.at)
          /\ \A i \in IndexesOf(ItemsOf(storage), lastOp.name) :
                /\ storage.items[i].interval = Num(lastOp.interval)
                /\ storage.items[i].startDate = Num(lastOp.at)

\* C2: from an empty store, the in-memory list and the persisted array hold at most
\* one reminder per plantName; a save for a name that has a reminder leaves the
\* number of reminders unchanged, and the one reminder of that name carries the new
\* interval and startDate = now.
C2_SaveReplaces ==
    /\ []C2_OnePerPlant
    /\ [][(lastOp'.op = "save" /\ lastOp'.existed) =>
             /\ Len(reminders') = Len(reminders)
             /\ Len(ItemsOf(storage')) = Len(ItemsOf(storage))]_vars

\* a save for a name that had a reminder, beside the reminder of another plant
C2_Witness ==
    /\ lastOp.op = "save"
    /\ lastOp.existed
    /\ lastOp.interval = 1
    /\ Len(reminders) = 2

\* C3 as stated: a delete for a name without a reminder leaves the in-memory list
\* and the content of the storage item as they were.
C3_DeleteAbsentKeepsItem ==
    [][(lastOp'.op = "delete" /\ ~lastOp'.existed) =>
          reminders' = reminders /\ storage' = storage]_vars

\* C3, amended: a delete for a name without a reminder leaves the in-memory list as
\* it was and rewrites the item as an array of the same records.
C3_DeleteAbsentKeepsRecords ==
    [][(lastOp'.op = "delete" /\ ~lastOp'.existed) =>
          /\ reminders' = reminders
          /\ storage'.kind = "array"
          /\ SameElements(ItemsOf(storage), storage'.items)
          /\ Fields(storage'.items) = Fields(reminders)]_vars

\* a delete for a name without a reminder, with a reminder in the store
C3_Witness ==
    /\ lastOp.op = "delete"
    /\ ~lastOp.existed
    /\ Len(reminders) >= 1

C4_Sorted(list) ==
    \A i \in 1..(Len(list) - 1) :
        /\ IsNum(list[i].nextWateringDate)
        /\ IsNum(list[i + 1].nextWateringDate)
        /\ list[i].nextWateringDate.v <= list[i + 1].nextWateringDate.v

\* C4: the list a save leaves in memory is ascending by nextWateringDate; the list
\* of a load that follows a save holds exactly one record with the saved plantName,
\* with the saved interval, holds the records of the item, and is ascending by
\* nextWateringDate.
C4_RoundTrip ==
    /\ lastOp.op = "save" => C4_Sorted(reminders)
    /\ (lastOp.op = "load" /\ lastOp.saved) =>
          /\ Cardinality(IndexesOf(reminders, lastOp.name)) = 1
          /\ \A i \in IndexesOf(reminders, lastOp.name) :
                reminders[i].interval = Num(lastOp.interval)
          /\ SameElements(Fields(reminders), Fields(ItemsOf(lastOp.found)))
          /\ C4_Sorted(reminders)

\* a load after a save, where the saved reminder, written last, comes first
C4_Witness ==
    /\ lastOp.op = "load"
    /\ lastOp.saved
    /\ Len(reminders) = 2
    /\ reminders[1].plantName = lastOp.name
    /\ reminders[1].nextWateringDate.v < reminders[2].nextWateringDate.v

\* C5 as stated: a load of content that cannot be deserialized leaves an empty
\* list, sets no error and discards the item.
C5_CorruptItemDiscarded ==
    (lastOp.op = "load" /\ lastOp.found.kind \in {"empty", "garbage"}) =>
        /\ reminders = <<>>
        /\ error = NoError
        /\ storage = NoItem

\* C5, amended: a load of content that cannot be deserialized leaves an empty list
\* and sets no error; it discards the item unless the content is the empty string,
\* which it leaves in place.
C5_CorruptItemHandled ==
    (lastOp.op = "load" /\ lastOp.found.kind \in {"empty", "garbage"}) =>
        /\ reminders = <<>>
        /\ error = NoError
        /\ storage = IF lastOp.found.kind = "garbage" THEN NoItem ELSE lastOp.found

\* a load that found text JSON.parse rejects
C5_Witness ==
    /\ lastOp.op = "load"
    /\ lastOp.found.kind = "garbage"
    /\ storage = NoItem

C6_Invalid(item) ==
    \/ item.isNull
    \/ item.plantName = NoName
    \/ ~IsNum(item.interval)
    \/ item.interval.v < 1
    \/ ~IsNum(item.startDate)

\* C6: a load of an array that holds a record without a valid plantName, interval
\* or startDate leaves an empty list and notifies of no record.
C6_InvalidSetDiscarded ==
    (/\ lastOp.op = "load"
     /\ lastOp.found.kind = "array"
     /\ \E i \in 1..Len(lastOp.found.items) : C6_Invalid(lastOp.found.items[i]))
    => (reminders = <<>> /\ alerts = <<>>)

\* C7 as stated: once a failed send is handled, the conversation is the one before
\* send was invoked, an error is set and the session handle is the one of the call.
C7_SendFailureRestores ==
    lastOp.op = "sendFail" =>
        /\ messages = lastOp.before
        /\ error = SendError
        /\ chatSession = lastOp.session

\* C7, amended: as stated when no image was selected while the call was
\* outstanding; when one was, the conversation is empty.
C7_SendFailureRollsBack ==
    lastOp.op = "sendFail" =>
        /\ messages = IF lastOp.cleared THEN <<>> ELSE lastOp.before
        /\ error = SendError
        /\ chatSession = lastOp.session

\* a failed send rolled back to a conversation with turns
C7_Witness ==
    /\ lastOp.op = "sendFail"
    /\ ~lastOp.cleared
    /\ Len(messages) >= 1

C8_InWindow(t, d) == IsNum(d) /\ t >= d.v - 86400000 /\ t < d.v + 86400000

RECURSIVE C8_DueNames(_, _)
C8_DueNames(list, t) ==
    IF list = <<>> THEN <<>>
    ELSE (IF C8_InWindow(t, Head(list).nextWateringDate)
          THEN <<Head(list).plantName>> ELSE <<>>)
         \o C8_DueNames(Tail(list), t)

\* C8: a load raises one notification for each record it derives whose window
\* [nextWateringDate - 1 day, nextWateringDate + 1 day) holds now, and no other;
\* the notifications of a load that keeps its list are those of the reminders of
\* the list that are due; save and delete raise none.
C8_NotifyWhenDue ==
    /\ [](lastOp.op = "load" =>
            /\ alerts = C8_DueNames(MapDerive(Processed(ItemsOf(lastOp.found)), lastOp.at),
                                    lastOp.at)
            /\ reminders # <<>> => SameElements(alerts, C8_DueNames(reminders, lastOp.at)))
    /\ [][lastOp'.op \in {"save", "delete"} => alerts' = alerts]_vars

\* a load of two reminders, one of them due
C8_Witness ==
    /\ lastOp.op = "load"
    /\ Len(reminders) = 2
    /\ Len(alerts) = 1

C9_Positive(list) ==
    \A i \in 1..Len(list) : IsNum(list[i].interval) /\ list[i].interval.v >= 1

\* C9: every reminder save writes has an integer interval >= 1, whatever was typed
\* into the interval input; text that is no number, or zero, makes the interval 1.
C9_SavedIntervalPositive ==
    /\ C9_Positive(reminders)
    /\ C9_Positive(ItemsOf(storage))
    /\ lastOp.op = "save" => lastOp.interval >= 1
    /\ typed \in {<<>>, <<"a">>, <<"0">>} => modalInterval = 1

\* a save of the interval 1 that the input's coercion produced
C9_Witness ==
    /\ lastOp.op = "save"
    /\ lastOp.interval = 1
    /\ Len(reminders) >= 1

\* C10: at most one model call is outstanding, and a call starts only while
\* isLoading is false.
C10_OneCallAtATime ==
    /\ [](Len(calls) <= 1)
    /\ [][Len(calls') > Len(calls) => ~isLoading]_vars

\* a call outstanding after an image selection and a switch to the reminders tab
C10_Witness ==
    /\ Len(calls) = 1
    /\ isLoading
    /\ calls[1].cleared
    /\ activeTab = "reminders"

\* C11 as stated: once a failed analysis is handled, the conversation has no turn,
\* plantName is null, an error is set, the selected image is the one the call was
\* made for and the session handle is the one before the call.
C11_AnalyzeFailureKeepsImage ==
    lastOp.op = "analyzeFail" =>
        /\ messages = <<>>
        /\ plantName = NoName
        /\ error = AnalyzeError
        /\ image = lastOp.image
        /\ chatSession = lastOp.session

\* C11, amended: as stated, except that the selected image is the one the call
\* was made for only when no image was selected while the call was outstanding.
C11_AnalyzeFailureRetryable ==
    lastOp.op = "analyzeFail" =>
        /\ messages = <<>>
        /\ plantName = NoName
        /\ error = AnalyzeError
        /\ image # NoImage
        /\ ~lastOp.cleared => image = lastOp.image
        /\ chatSession = lastOp.session

\* a failed analysis of the second image, started over a conversation with turns
C11_Witness ==
    /\ lastOp.op = "analyzeFail"
    /\ ~lastOp.cleared
    /\ image = 2
    /\ Len(lastOp.before) >= 1
    /\ chatSession > 1

\* C12 as stated: analyze invoked with no image selected, and send invoked with a
\* message that is empty or white space, make no model call, change neither the
\* conversation nor the session handle, and leave a validation message set.
C12_MissingInputRejected ==
    [][lastOp'.op \in {"analyzeNoImage", "sendNoText"} =>
          /\ calls' = calls
          /\ messages' = messages
          /\ chatSession' = chatSession
          /\ error' # NoError]_vars

\* C12, amended: both make no model call and change neither the conversation nor
\* the session handle; analyze without an image sets the validation message, send
\* without a text returns silently and leaves the error as it was.
C12_MissingInputHandled ==
    [][/\ lastOp'.op \in {"analyzeNoImage", "sendNoText"} =>
             /\ calls' = calls
             /\ messages' = messages
             /\ chatSession' = chatSession
             /\ isLoading' = isLoading
       /\ lastOp'.op = "analyzeNoImage" => error' = NoImageError
       /\ lastOp'.op = "sendNoText" => error' = error]_vars

\* send invoked with white space as its text, over a conversation, no error shown
C12_Witness ==
    /\ lastOp.op = "sendNoText"
    /\ userInput = <<" ">>
    /\ Len(messages) >= 1
    /\ error = NoError
    /\ calls = <<>>

C13_Interactive ==
    /\ calls = <<>> => ~isLoading
    /\ (mounted /\ ~isLoading /\ AnalyzeButtonRendered) => ENABLED AnalyzeClick
    /\ (mounted /\ ~isLoading /\ activeTab = "chat" /\ Trim(userInput) # <<>>
           /\ Len(messages) \in 1..(MaxTurns - 2)) => ENABLED SendMessage

\* C13: when model calls settle, a state with isLoading = true is followed by one
\* with isLoading = false; isLoading is never true with no call outstanding; and
\* with isLoading = false the analyze button (with an image) and the submit button
\* (with a conversation and a text) start a call.
C13_LoadingEnds ==
    /\ []C13_Interactive
    /\ isLoading ~> ~isLoading

\* a call has just failed and the analyze button is enabled again
C13_Witness ==
    /\ lastOp.op \in {"sendFail", "analyzeFail"}
    /\ ~isLoading
    /\ calls = <<>>
    /\ ENABLED AnalyzeClick

\* C14: when a call settles that was made for an image other than the one now
\* selected, its completion adds no turn to the conversation and sets no plantName.
C14_StaleCompletionIgnored ==
    [][\A i \in 1..Len(calls) :
          (mounted' /\ calls' = RemoveAt(calls, i) /\ calls[i].image # image) =>
              /\ Len(messages') <= Len(messages)
              /\ plantName' = plantName]_vars

====
